---- MODULE Spec2Model ----
(***************************************************************************)
(* State-machine model of the AthleteTracker server: the REST handlers of  *)
(* server/routes.ts over the PostgresStorage implementation of             *)
(* server/postgres-storage.ts and the tables of shared/schema.ts.          *)
(* Every handler is split at its awaits where another request can          *)
(* interleave with a visible effect; storage statements are atomic.        *)
(***************************************************************************)
EXTENDS Integers, Sequences, FiniteSets, TLC

\* ---------------------------------------------------------------- bounds
MaxStudents == 2
MaxInvites == 1
MaxTime == 2
MaxReqs == 2
MaxImportRows == 2
MaxEvents == 2
MaxPerfs == 2
MaxDeleters == 1
MaxRecorders == 1
MaxAttRows == 3
MaxBatch == 2
MaxMarkers == 2
MaxRankPerfs == 3
MaxRankStudents == 3
MaxRounds == 2
MaxStatRecords == 3

\* ------------------------------------------------------------- constants
Users == {"u1", "u2"}
Roles == {"coach", "parent", "admin"}
Codes == {"A", "B"}
NoCode == "none"
NoExpiry == -1
NoId == 0
NoUser == "nobody"
Absent == "absent"
NoRounds == 0
ExpiryChoices == {NoExpiry, 1}
Reqs == 1..MaxReqs
Deleters == 1..MaxDeleters
Recorders == 1..MaxRecorders
Markers == 1..MaxMarkers
Dates == {1}

VARIABLES
    role,          \* users.role, by user id
    updatedAt,     \* users.updated_at, by user id
    students,      \* students table, by row id
    nextStudent,   \* the next fresh students.id
    invites,       \* parent_invites table, by row id
    nextInvite,    \* the next fresh parent_invites.id
    now,           \* the value of new Date()
    reg,           \* the parent-registration requests in flight
    events,        \* events table, by row id
    nextEvent,     \* the next fresh events.id
    performances,  \* performances table, by row id
    nextPerf,      \* the next fresh performances.id
    del,           \* the DELETE /api/events/:id requests in flight
    rec,           \* the POST /api/performances requests in flight
    attendance,    \* attendance table, by row id
    nextAtt,       \* the next fresh attendance.id
    att,           \* the POST /api/attendance requests in flight
    writer,        \* role of the caller whose request wrote a roster row last
    resp,          \* the latest response of a student, event, attendance or
                   \* performance route
    rankArgs,      \* the arguments of the results view's calculateRankings call
    rankings,      \* what that call returned
    statArgs,      \* the attendance records and the roster a percentage is computed from
    stats          \* the percentage computed last

userVars == <<role, updatedAt>>
studentVars == <<students, nextStudent>>
inviteVars == <<invites, nextInvite, now, reg>>
eventVars == <<events, nextEvent, performances, nextPerf, del, rec>>
attVars == <<attendance, nextAtt, att>>
rankVars == <<rankArgs, rankings>>
statVars == <<statArgs, stats>>
clientVars == <<rankVars, statVars>>

vars == <<role, updatedAt, students, nextStudent, invites, nextInvite, now, reg, events, nextEvent,
          performances, nextPerf, del, rec, attendance, nextAtt, att, writer, resp,
          rankArgs, rankings, statArgs, stats>>

\* ---------------------------------------------------------------- tables
\* Removes the rows of table t whose key is in ks.
DeleteRows(t, ks) == [k \in DOMAIN t \ ks |-> t[k]]

\* Adds (or replaces) the row with key k.
PutRow(t, k, row) == [j \in DOMAIN t \cup {k} |-> IF j = k THEN row ELSE t[j]]

\* ------------------------------------------------------ users and roles
\* updateUserRole: UPDATE users SET role WHERE id.
updateUserRole(r, id, newRole) == [r EXCEPT ![id] = newRole]

\* What the login strategies pass to storage.upsertUser: id, email, names and
\* picture, never a role.
LoginClaims == [role |-> Absent]

upsertUserDefaultRole(row, userData, t) ==
    [role |-> IF userData.role = Absent THEN "coach" ELSE userData.role, updatedAt |-> t]

\* upsertUser for an id that exists: UPDATE users SET ...userData, updated_at;
\* a column that userData does not carry keeps its value.
upsertUser(row, userData, t) ==
    [role |-> IF userData.role = Absent THEN row.role ELSE userData.role, updatedAt |-> t]

\* The handlers' test "user?.role === 'parent'".
IsParent(u) == role[u] = "parent"

\* ------------------------------------------------------ parent invites
\* A freshly inserted parent_invites row: claimed DEFAULT false, claimed_at and
\* parent_user_id null.
NewInvite(coachId, studentId, code, expiresAt) ==
    [coachId |-> coachId, studentId |-> studentId, inviteCode |-> code,
     claimed |-> FALSE, claimedAt |-> NoExpiry, expiresAt |-> expiresAt,
     parentUserId |-> NoUser]

IsExpiredNever(inv, t) == FALSE

\* "invite.expiresAt && new Date() > invite.expiresAt"
IsExpired(inv, t) == inv.expiresAt # NoExpiry /\ t > inv.expiresAt

InvalidCode == [ok |-> FALSE, coachId |-> NoUser, studentId |-> NoId, inviteId |-> NoId]

\* validateInviteCode: SELECT ... WHERE invite_code = code LIMIT 1, then the
\* claimed and the expiry tests; no write.
validateInviteCode(tbl, code, t) ==
    LET hits == {i \in DOMAIN tbl : tbl[i].inviteCode = code}
    IN  IF hits = {} THEN InvalidCode
        ELSE LET i == CHOOSE j \in hits : TRUE
             IN  IF tbl[i].claimed THEN InvalidCode
                 ELSE IF IsExpired(tbl[i], t) THEN InvalidCode
                 ELSE [ok |-> TRUE, coachId |-> tbl[i].coachId,
                       studentId |-> tbl[i].studentId, inviteId |-> i]

ClaimInviteWhereNoCas(tbl, i, inviteId) == i = inviteId

\* The WHERE clause of claimInvite's UPDATE: id = inviteId AND claimed = false.
ClaimInviteWhere(tbl, i, inviteId) == i = inviteId /\ tbl[i].claimed = FALSE

\* The rows claimInvite's UPDATE ... RETURNING affects.
ClaimInviteRows(tbl, inviteId) == {i \in DOMAIN tbl : ClaimInviteWhere(tbl, i, inviteId)}

\* claimInvite: the table after the conditional UPDATE.
claimInvite(tbl, inviteId, parentUserId, t) ==
    [i \in DOMAIN tbl |->
        IF i \in ClaimInviteRows(tbl, inviteId)
        THEN [tbl[i] EXCEPT !.claimed = TRUE, !.claimedAt = t, !.parentUserId = parentUserId]
        ELSE tbl[i]]

\* ----------------------------------------------------------- process slots
IdleReq == [pc |-> "idle", userId |-> NoUser, inviteId |-> NoId,
            res |-> "none", claim |-> "none", roleBefore |-> "coach"]

\* ------------------------------------------------------ student routes
\* Foreign keys attendance.student_id, performances.student_id and
\* parent_invites.student_id (ON DELETE no action): a student row that is
\* still referenced cannot be deleted.
StudentReferenced(s) ==
    \/ \E a \in DOMAIN attendance : attendance[a].studentId = s
    \/ \E p \in DOMAIN performances : performances[p].studentId = s
    \/ \E i \in DOMAIN invites : invites[i].studentId = s

OwnsAny(row, u) == TRUE

\* The handlers' ownership test, the negation of "existing.coachId !== userId".
Owns(row, u) == row.coachId = u

\* POST /api/students
CreateStudent(u) ==
    /\ nextStudent <= MaxStudents
    /\ IF IsParent(u)
       THEN /\ resp' = "forbidden"
            /\ UNCHANGED <<students, nextStudent, writer>>
       ELSE /\ students' = PutRow(students, nextStudent, [coachId |-> u])
            /\ nextStudent' = nextStudent + 1
            /\ writer' = role[u]
            /\ resp' = "ok"
    /\ UNCHANGED <<clientVars, userVars, inviteVars, eventVars, attVars>>

\* updateStudent: UPDATE students SET ...studentData WHERE id.
updateStudent(row, body) ==
    [row EXCEPT !.coachId = IF body.coachId = Absent THEN @ ELSE body.coachId]

\* PUT /api/students/:id ; body is a partial InsertStudent, coachId included.
UpdateStudent(u, s, body) ==
    /\ IF s \notin DOMAIN students
       THEN /\ resp' = "notfound"
            /\ UNCHANGED <<students, writer>>
       ELSE IF IsParent(u) \/ ~Owns(students[s], u)
       THEN /\ resp' = "forbidden"
            /\ UNCHANGED <<students, writer>>
       ELSE /\ students' = [students EXCEPT ![s] = updateStudent(@, body)]
            /\ writer' = role[u]
            /\ resp' = "ok"
    /\ UNCHANGED <<clientVars, userVars, nextStudent, inviteVars, eventVars, attVars>>

\* DELETE /api/students/:id ; deleteStudent throws on a foreign-key violation
\* and the handler answers 500.
DeleteStudent(u, s) ==
    /\ IF s \notin DOMAIN students
       THEN /\ resp' = "notfound"
            /\ UNCHANGED <<students, writer>>
       ELSE IF IsParent(u) \/ ~Owns(students[s], u)
       THEN /\ resp' = "forbidden"
            /\ UNCHANGED <<students, writer>>
       ELSE IF StudentReferenced(s)
       THEN /\ resp' = "error"
            /\ UNCHANGED <<students, writer>>
       ELSE /\ students' = DeleteRows(students, {s})
            /\ writer' = role[u]
            /\ resp' = "ok"
    /\ UNCHANGED <<clientVars, userVars, nextStudent, inviteVars, eventVars, attVars>>

\* POST /api/students/import : every valid row of the sheet is inserted with
\* coachId = the caller; the handler has no role test.
ImportStudents(u, n) ==
    /\ n >= 1
    /\ nextStudent + n - 1 <= MaxStudents
    /\ students' = [j \in DOMAIN students \cup (nextStudent..(nextStudent + n - 1)) |->
                        IF j \in DOMAIN students THEN students[j] ELSE [coachId |-> u]]
    /\ nextStudent' = nextStudent + n
    /\ writer' = role[u]
    /\ resp' = "ok"
    /\ UNCHANGED <<clientVars, userVars, inviteVars, eventVars, attVars>>

\* ------------------------------------------------------------ read routes
ParentInviteWhereAny(inv, parentUserId) == TRUE

\* The WHERE clause of getStudentsForParent's first query:
\* parent_invites.parent_user_id = parentUserId.
ParentInviteWhere(inv, parentUserId) == inv.parentUserId = parentUserId

\* getStudentsForParent: the students whose id is the (non-null) studentId of
\* an invite record of this parent.
getStudentsForParent(parentUserId) ==
    LET studentIds == {invites[i].studentId :
                            i \in {j \in DOMAIN invites :
                                        ParentInviteWhere(invites[j], parentUserId)}} \ {NoId}
    IN  {s \in DOMAIN students : s \in studentIds}

\* getStudents: SELECT ... WHERE coach_id = coachId.
getStudents(coachId) == {s \in DOMAIN students : students[s].coachId = coachId}

\* GET /api/students : the ids of the student rows in the response.
GetStudentList(u) == IF IsParent(u) THEN getStudentsForParent(u) ELSE getStudents(u)

\* The authorization check that GET /api/students/:id and
\* GET /api/performances/student/:studentId share.
ReadStudentStatus(u, s) ==
    IF s \notin DOMAIN students THEN "notfound"
    ELSE IF IsParent(u)
         THEN IF s \in getStudentsForParent(u) THEN "ok" ELSE "forbidden"
         ELSE IF Owns(students[s], u) THEN "ok" ELSE "forbidden"

\* GET /api/students/:id
GetStudent(u, s) ==
    [status |-> ReadStudentStatus(u, s),
     data |-> IF ReadStudentStatus(u, s) = "ok" THEN {s} ELSE {}]

\* GET /api/performances/student/:studentId : the ids of the performance
\* rows in the response.
GetStudentPerformances(u, s) ==
    [status |-> ReadStudentStatus(u, s),
     data |-> IF ReadStudentStatus(u, s) = "ok"
              THEN {p \in DOMAIN performances : performances[p].studentId = s} ELSE {}]

\* ------------------------------------------------- parent-invite routes
\* POST /api/parent-invites ; the insert throws (400) on a null student_id
\* and on the unique constraint on invite_code.
AddParentInvite(u, s, code, expiresAt) ==
    /\ nextInvite <= MaxInvites
    /\ IF IsParent(u)
       THEN /\ resp' = "forbidden"
            /\ UNCHANGED <<invites, nextInvite>>
       ELSE IF s # NoId /\ (s \notin DOMAIN students \/ ~Owns(students[s], u))
       THEN /\ resp' = "forbidden"
            /\ UNCHANGED <<invites, nextInvite>>
       ELSE IF s = NoId \/ \E i \in DOMAIN invites : invites[i].inviteCode = code
       THEN /\ resp' = "invalid"
            /\ UNCHANGED <<invites, nextInvite>>
       ELSE /\ invites' = PutRow(invites, nextInvite, NewInvite(u, s, code, expiresAt))
            /\ nextInvite' = nextInvite + 1
            /\ resp' = "ok"
    /\ UNCHANGED <<clientVars, userVars, studentVars, now, reg, eventVars, attVars, writer>>

\* The clock read by new Date().
Tick ==
    /\ now < MaxTime
    /\ now' = now + 1
    /\ UNCHANGED <<clientVars, resp, userVars, studentVars, invites, nextInvite, reg, eventVars, attVars, writer>>

\* POST /api/auth/complete-parent-registration and
\* POST /api/parent-invites/complete, up to the validateInviteCode await.
RegValidate(r, u, code) ==
    /\ reg[r].pc = "idle"
    /\ LET v == validateInviteCode(invites, code, now)
       IN  reg' = [reg EXCEPT ![r] =
                [pc |-> IF v.ok THEN "validated" ELSE "done",
                 userId |-> u, inviteId |-> v.inviteId,
                 res |-> IF v.ok THEN "none" ELSE "invalid",
                 claim |-> "none", roleBefore |-> role[u]]]
    /\ UNCHANGED <<clientVars, resp, userVars, studentVars, invites, nextInvite, now, eventVars, attVars, writer>>

\* await storage.updateUserRole(userId, 'parent')
RegUpdateRole(r) ==
    /\ reg[r].pc = "validated"
    /\ role' = updateUserRole(role, reg[r].userId, "parent")
    /\ updatedAt' = [updatedAt EXCEPT ![reg[r].userId] = now]
    /\ reg' = [reg EXCEPT ![r].pc = "roleUpdated"]
    /\ UNCHANGED <<clientVars, resp, studentVars, invites, nextInvite, now, eventVars, attVars, writer>>

\* await storage.claimInvite(inviteId, userId) and the response.
RegClaim(r) ==
    /\ reg[r].pc = "roleUpdated"
    /\ LET hit == ClaimInviteRows(invites, reg[r].inviteId) # {}
       IN  reg' = [reg EXCEPT ![r].pc = "done",
                              ![r].claim = IF hit THEN "row" ELSE "null",
                              ![r].res = IF hit THEN "ok" ELSE "conflict"]
    /\ invites' = claimInvite(invites, reg[r].inviteId, reg[r].userId, now)
    /\ UNCHANGED <<clientVars, resp, userVars, studentVars, nextInvite, now, eventVars, attVars, writer>>

\* A login of user u (the verify callback of the passport strategy).
Login(u) ==
    /\ LET row == upsertUser([role |-> role[u], updatedAt |-> updatedAt[u]], LoginClaims, now)
       IN  /\ role' = [role EXCEPT ![u] = row.role]
           /\ updatedAt' = [updatedAt EXCEPT ![u] = row.updatedAt]
    /\ UNCHANGED <<clientVars, resp, studentVars, inviteVars, eventVars, attVars, writer>>

\* ---------------------------------------------------------- event routes
EventStatus == {"planned", "in_progress", "completed"}

\* events.status DEFAULT 'planned', events.rounds DEFAULT 1; insertEventSchema
\* omits only id, createdAt and updatedAt, so status and rounds come from the body.
NewEvent(u, body) ==
    [coachId |-> u,
     status |-> IF body.status = Absent THEN "planned" ELSE body.status,
     rounds |-> IF body.rounds = NoRounds THEN 1 ELSE body.rounds]

\* updateEvent: UPDATE events SET ...eventData WHERE id.
updateEvent(row, body) ==
    [row EXCEPT !.status = IF body.status = Absent THEN @ ELSE body.status,
                !.rounds = IF body.rounds = NoRounds THEN @ ELSE body.rounds]

\* POST /api/events
CreateEvent(u, body) ==
    /\ nextEvent <= MaxEvents
    /\ IF IsParent(u)
       THEN /\ resp' = "forbidden"
            /\ UNCHANGED <<events, nextEvent, writer>>
       ELSE /\ events' = PutRow(events, nextEvent, NewEvent(u, body))
            /\ nextEvent' = nextEvent + 1
            /\ writer' = role[u]
            /\ resp' = "ok"
    /\ UNCHANGED <<clientVars, userVars, studentVars, inviteVars, performances, nextPerf, del, rec,
                   attVars>>

\* PUT /api/events/:id
UpdateEvent(u, e, body) ==
    /\ IF e \notin DOMAIN events
       THEN /\ resp' = "notfound"
            /\ UNCHANGED <<events, writer>>
       ELSE IF IsParent(u) \/ ~Owns(events[e], u)
       THEN /\ resp' = "forbidden"
            /\ UNCHANGED <<events, writer>>
       ELSE /\ events' = [events EXCEPT ![e] = updateEvent(@, body)]
            /\ writer' = role[u]
            /\ resp' = "ok"
    /\ UNCHANGED <<clientVars, userVars, studentVars, inviteVars, nextEvent, performances, nextPerf,
                   del, rec, attVars>>

IdleDel == [pc |-> "idle", eventId |-> NoId, res |-> "none", callerRole |-> "coach",
            removed |-> 0]

\* DELETE /api/events/:id, up to the call of storage.deleteEvent.
DelCheck(d, u, e) ==
    /\ del[d].pc = "idle"
    /\ IF e \notin DOMAIN events
       THEN /\ resp' = "notfound"
            /\ UNCHANGED del
       ELSE IF IsParent(u) \/ ~Owns(events[e], u)
       THEN /\ resp' = "forbidden"
            /\ UNCHANGED del
       ELSE /\ del' = [del EXCEPT ![d] = [pc |-> "checked", eventId |-> e, res |-> "none",
                                          callerRole |-> role[u], removed |-> 0]]
            /\ UNCHANGED resp
    /\ UNCHANGED <<clientVars, userVars, studentVars, inviteVars, events, nextEvent, performances,
                   nextPerf, rec, attVars, writer>>

DeletePerfWhereAny(tbl, p, id) == TRUE

\* The WHERE clause of deleteEvent's first statement: performances.eventId = id.
DeletePerfWhere(tbl, p, id) == tbl[p].eventId = id

\* deleteEvent, first statement: DELETE FROM performances WHERE event_id = id.
DelPerformances(d) ==
    /\ del[d].pc = "checked"
    /\ performances' = DeleteRows(performances,
            {p \in DOMAIN performances : DeletePerfWhere(performances, p, del[d].eventId)})
    /\ del' = [del EXCEPT ![d].pc = "perfsDeleted",
                          ![d].removed = Cardinality({p \in DOMAIN performances :
                                DeletePerfWhere(performances, p, del[d].eventId)})]
    /\ writer' = del[d].callerRole
    /\ UNCHANGED <<clientVars, resp, userVars, studentVars, inviteVars, events, nextEvent, nextPerf,
                   rec, attVars>>

\* Foreign key performances.event_id (ON DELETE no action).
EventReferenced(e) == \E p \in DOMAIN performances : performances[p].eventId = e

\* deleteEvent, second statement: DELETE FROM events WHERE id; a foreign-key
\* violation makes it throw, and the handler answers 500.
DelEventRow(d) ==
    /\ del[d].pc = "perfsDeleted"
    /\ IF EventReferenced(del[d].eventId)
       THEN /\ del' = [del EXCEPT ![d].pc = "done", ![d].res = "error"]
            /\ resp' = "error"
            /\ UNCHANGED <<events, writer>>
       ELSE /\ del' = [del EXCEPT ![d].pc = "done", ![d].res = "ok"]
            /\ resp' = "ok"
            /\ events' = DeleteRows(events, {del[d].eventId})
            /\ writer' = del[d].callerRole
    /\ UNCHANGED <<clientVars, userVars, studentVars, inviteVars, nextEvent, performances, nextPerf,
                   rec, attVars>>

\* The response has been sent.
DelReturn(d) ==
    /\ del[d].pc = "done"
    /\ del' = [del EXCEPT ![d] = IdleDel]
    /\ UNCHANGED <<clientVars, resp, userVars, studentVars, inviteVars, events, nextEvent,
                   performances, nextPerf, rec, attVars, writer>>

\* ---------------------------------------------------- performance routes
IdleRec == [pc |-> "idle", studentId |-> NoId, eventId |-> NoId, round |-> 1,
            measurement |-> <<>>, personalBest |-> Absent, callerRole |-> "coach"]

\* POST /api/performances, up to the call of storage.recordPerformance.
RecCheck(k, u, s, e, round, m, pb) ==
    /\ rec[k].pc = "idle"
    /\ nextPerf <= MaxPerfs
    /\ IF IsParent(u)
       THEN /\ resp' = "forbidden"
            /\ UNCHANGED rec
       ELSE IF s \notin DOMAIN students \/ e \notin DOMAIN events
       THEN /\ resp' = "invalid"
            /\ UNCHANGED rec
       ELSE IF ~Owns(students[s], u) \/ ~Owns(events[e], u)
       THEN /\ resp' = "forbidden"
            /\ UNCHANGED rec
       ELSE /\ rec' = [rec EXCEPT ![k] = [pc |-> "checked", studentId |-> s, eventId |-> e,
                                          round |-> round, measurement |-> m,
                                          personalBest |-> pb, callerRole |-> role[u]]]
            /\ UNCHANGED resp
    /\ UNCHANGED <<clientVars, userVars, studentVars, inviteVars, events, nextEvent, performances,
                   nextPerf, del, attVars, writer>>

\* The row INSERT INTO performances stores for a parsed body: personal_best
\* is the body's value, or the column DEFAULT false.
NewPerformance(body) ==
    [studentId |-> body.studentId, eventId |-> body.eventId, round |-> body.round,
     measurement |-> body.measurement,
     personalBest |-> IF body.personalBest = Absent THEN FALSE ELSE body.personalBest = "true"]

recordPerformanceRetro(tbl, id, body) ==
    PutRow([p \in DOMAIN tbl |->
                IF tbl[p].studentId = body.studentId
                THEN [tbl[p] EXCEPT !.personalBest = FALSE] ELSE tbl[p]],
           id, NewPerformance(body))

\* recordPerformance: db.insert(performances).values(performance).
recordPerformance(tbl, id, body) == PutRow(tbl, id, NewPerformance(body))

\* The call of recordPerformance and the response; the foreign keys to
\* students and events make the insert throw (400) when either row is gone.
RecInsert(k) ==
    /\ rec[k].pc = "checked"
    /\ nextPerf <= MaxPerfs
    /\ IF rec[k].studentId \in DOMAIN students /\ rec[k].eventId \in DOMAIN events
       THEN /\ performances' = recordPerformance(performances, nextPerf, rec[k])
            /\ nextPerf' = nextPerf + 1
            /\ writer' = rec[k].callerRole
            /\ resp' = "ok"
       ELSE /\ resp' = "invalid"
            /\ UNCHANGED <<performances, nextPerf, writer>>
    /\ rec' = [rec EXCEPT ![k] = IdleRec]
    /\ UNCHANGED <<clientVars, userVars, studentVars, inviteVars, events, nextEvent, del, attVars>>

\* ---------------------------------------------------- attendance routes
AttConflictRowsNone(tbl, item) == {}

\* The rows that collide with item on the unique index
\* attendance_student_date_unique (student_id, date).
AttConflictRows(tbl, item) ==
    {a \in DOMAIN tbl : tbl[a].studentId = item.studentId /\ tbl[a].date = item.date}

AttConflictSetNothing(row, item, coachId) == row

\* The SET clause of markAttendance's ON CONFLICT ... DO UPDATE.
AttConflictSet(row, item, coachId) ==
    [row EXCEPT !.present = item.present, !.late = item.late, !.coachId = coachId]

\* One statement of markAttendance:
\* INSERT ... ON CONFLICT (student_id, date) DO UPDATE SET present, late, coach_id.
markAttendanceItem(tbl, id, item, coachId) ==
    IF AttConflictRows(tbl, item) = {}
    THEN PutRow(tbl, id, [studentId |-> item.studentId, date |-> item.date,
                          present |-> item.present, late |-> item.late,
                          coachId |-> coachId])
    ELSE [a \in DOMAIN tbl |->
            IF a \in AttConflictRows(tbl, item)
            THEN AttConflictSet(tbl[a], item, coachId)
            ELSE tbl[a]]

IdleAtt == [pc |-> "idle", userId |-> NoUser, batch |-> <<>>, idx |-> 1,
            callerRole |-> "coach"]

BatchDeniedFirstOnly(batch, u) ==
    \/ batch[1].studentId \notin DOMAIN students
    \/ ~Owns(students[batch[1].studentId], u)

\* The ownership loop of POST /api/attendance: some item names a student
\* that getStudent does not find or that another coach owns.
BatchDenied(batch, u) ==
    \E k \in 1..Len(batch) :
        \/ batch[k].studentId \notin DOMAIN students
        \/ ~Owns(students[batch[k].studentId], u)

\* POST /api/attendance, up to the call of storage.markAttendance: the role
\* test and the ownership loop over the whole batch.
AttCheck(a, u, batch) ==
    /\ att[a].pc = "idle"
    /\ IF IsParent(u)
       THEN /\ resp' = "forbidden"
            /\ UNCHANGED att
       ELSE IF BatchDenied(batch, u)
       THEN /\ resp' = "forbidden"
            /\ UNCHANGED att
       ELSE /\ att' = [att EXCEPT ![a] = [pc |-> "marking", userId |-> u, batch |-> batch,
                                          idx |-> 1, callerRole |-> role[u]]]
            /\ UNCHANGED resp
    /\ UNCHANGED <<clientVars, userVars, studentVars, inviteVars, eventVars, attendance, nextAtt,
                   writer>>

\* markAttendance, one iteration of its loop; a foreign-key violation on
\* student_id makes the statement throw and ends the request (400).
AttUpsert(a) ==
    /\ att[a].pc = "marking"
    /\ LET item == att[a].batch[att[a].idx]
           last == att[a].idx = Len(att[a].batch)
       IN  IF item.studentId \in DOMAIN students
           THEN /\ AttConflictRows(attendance, item) = {} => nextAtt <= MaxAttRows
                /\ attendance' = markAttendanceItem(attendance, nextAtt, item, att[a].userId)
                /\ nextAtt' = IF AttConflictRows(attendance, item) = {}
                              THEN nextAtt + 1 ELSE nextAtt
                /\ writer' = att[a].callerRole
                /\ resp' = IF last THEN "ok" ELSE resp
                /\ att' = [att EXCEPT ![a] = IF last THEN IdleAtt
                                             ELSE [@ EXCEPT !.idx = @ + 1]]
           ELSE /\ att' = [att EXCEPT ![a] = IdleAtt]
                /\ resp' = "invalid"
                /\ UNCHANGED <<attendance, nextAtt, writer>>
    /\ UNCHANGED <<clientVars, userVars, studentVars, inviteVars, eventVars>>
\* ------------------------------------------------ results view (client)
\* A measurement is a string, modelled as the sequence of its characters.
NullText == <<"null">>
Digits == {"0", "1", "2", "3", "4", "5", "6", "7", "8", "9"}
NaN == -1
\* Numbers are kept in thousandths.
Scale == 1000

DigitVal(c) ==
    CASE c = "0" -> 0 [] c = "1" -> 1 [] c = "2" -> 2 [] c = "3" -> 3 [] c = "4" -> 4
      [] c = "5" -> 5 [] c = "6" -> 6 [] c = "7" -> 7 [] c = "8" -> 8 [] c = "9" -> 9

\* String.prototype.trim
Trim(m) ==
    LET inked == {i \in 1..Len(m) : m[i] # " "}
    IN  IF inked = {} THEN <<>>
        ELSE SubSeq(m, CHOOSE i \in inked : \A j \in inked : i <= j,
                       CHOOSE i \in inked : \A j \in inked : i >= j)

\* "p.measurement && p.measurement.trim()" as a condition.
IsValidMeasurement(m) == m # NullText /\ m # <<>> /\ Trim(m) # <<>>

\* replace(/[^0-9.]/g, '')
StripNonNumeric(m) == SelectSeq(m, LAMBDA c : c \in Digits \cup {"."})

\* The length of the run of digits that s has from position i on.
RECURSIVE DigitRun(_, _)
DigitRun(s, i) == IF i <= Len(s) /\ s[i] \in Digits THEN 1 + DigitRun(s, i + 1) ELSE 0

\* The integer that the digits s[i..j] spell.
RECURSIVE DigitsValue(_, _, _)
DigitsValue(s, i, j) ==
    IF j < i THEN 0 ELSE DigitsValue(s, i, j - 1) * 10 + DigitVal(s[j])

\* The fraction that the digits s[i..j] spell after a decimal point, in
\* thousandths (digits past the third are dropped).
FractionValue(s, i, j) ==
    (IF j >= i THEN DigitVal(s[i]) * 100 ELSE 0)
    + (IF j >= i + 1 THEN DigitVal(s[i + 1]) * 10 ELSE 0)
    + (IF j >= i + 2 THEN DigitVal(s[i + 2]) ELSE 0)

\* parseFloat on a string of digits and dots: the longest prefix that is a
\* decimal literal, NaN when there is none.
parseFloat(s) ==
    LET intLen == DigitRun(s, 1)
        hasDot == intLen < Len(s) /\ s[intLen + 1] = "."
        fracLen == IF hasDot THEN DigitRun(s, intLen + 2) ELSE 0
    IN  IF intLen = 0 /\ fracLen = 0 THEN NaN
        ELSE DigitsValue(s, 1, intLen) * Scale
                + FractionValue(s, intLen + 2, intLen + 1 + fracLen)

\* parseFloat(measurement.replace(/[^0-9.]/g, ''))
NumericValue(m) == parseFloat(StripNonNumeric(m))

\* JavaScript's < and > on numbers: false when an operand is NaN.
NumLess(a, b) == a # NaN /\ b # NaN /\ a < b
NumGreater(a, b) == a # NaN /\ b # NaN /\ a > b

\* The keys of the studentPerformances Map, in insertion order.
RECURSIVE MapKeys(_)
MapKeys(perfs) ==
    IF perfs = <<>> THEN <<>>
    ELSE LET front == MapKeys(SubSeq(perfs, 1, Len(perfs) - 1))
             sid == perfs[Len(perfs)].studentId
         IN  IF \E i \in 1..Len(front) : front[i] = sid THEN front ELSE Append(front, sid)

\* The test of the reduce callbacks: does current replace best?
Better(type, current, best) ==
    IF type = "running"
    THEN NumLess(NumericValue(current.measurement), NumericValue(best.measurement))
    ELSE NumGreater(NumericValue(current.measurement), NumericValue(best.measurement))

\* studentPerfs.reduce(callback, studentPerfs[0]) over the first n elements.
RECURSIVE BestPerformance(_, _, _)
BestPerformance(type, perfs, n) ==
    IF n = 0 THEN perfs[1]
    ELSE LET best == BestPerformance(type, perfs, n - 1)
         IN  IF Better(type, perfs[n], best) THEN perfs[n] ELSE best

ValidPerformancesAll(perfs) == perfs

\* performances.filter(p => p.measurement && p.measurement.trim())
ValidPerformances(perfs) ==
    SelectSeq(perfs, LAMBDA p : IsValidMeasurement(p.measurement))

\* The rankings array before the sort: one entry per Map key whose student is
\* found in the students list.
UnsortedRankings(type, perfs, studentList) ==
    LET valid == ValidPerformances(perfs)
        keys == SelectSeq(MapKeys(valid), LAMBDA sid : sid \in studentList)
    IN  [k \in 1..Len(keys) |->
            LET own == SelectSeq(valid, LAMBDA p : p.studentId = keys[k])
                best == BestPerformance(type, own, Len(own))
            IN  [student |-> keys[k], bestPerformance |-> best.measurement,
                 numericValue |-> NumericValue(best.measurement)]]

\* The sign of the sort comparator (a NaN result counts as +0).
CompareSign(type, a, b) ==
    IF a.numericValue = NaN \/ b.numericValue = NaN THEN 0
    ELSE LET d == IF type = "running" THEN a.numericValue - b.numericValue
                  ELSE b.numericValue - a.numericValue
         IN  IF d < 0 THEN -1 ELSE IF d > 0 THEN 1 ELSE 0

\* Array.prototype.sort: with a consistent comparator (one whose "compares
\* equal" is transitive and compatible with its "less than") the stable sorted
\* order; with a comparator made inconsistent by NaN the order is
\* implementation-defined, here any order without an adjacent pair that the
\* comparator puts the other way round.
SortOutcomes(type, list) ==
    LET n == Len(list)
        perms == {f \in [1..n -> 1..n] : \A i, j \in 1..n : f[i] = f[j] => i = j}
        cmp(i, j) == CompareSign(type, list[i], list[j])
        consistent ==
            \A i, j, k \in 1..n :
                (cmp(i, j) = 0 /\ cmp(j, k) = 0) => cmp(i, k) = 0
    IN  {[i \in 1..n |-> list[f[i]]] : f \in
            {g \in perms :
                /\ \A i \in 1..(n - 1) : CompareSign(type, list[g[i]], list[g[i + 1]]) <= 0
                /\ consistent =>
                    \A i, j \in 1..n :
                        (i < j /\ CompareSign(type, list[g[i]], list[g[j]]) = 0)
                            => g[i] < g[j]}}

WithRanksFromZero(list) ==
    [i \in 1..Len(list) |->
        [student |-> list[i].student, bestPerformance |-> list[i].bestPerformance,
         numericValue |-> list[i].numericValue, rank |-> i - 1]]

\* rankings.map((ranking, index) => ({...ranking, rank: index + 1}))
WithRanks(list) ==
    [i \in 1..Len(list) |->
        [student |-> list[i].student, bestPerformance |-> list[i].bestPerformance,
         numericValue |-> list[i].numericValue, rank |-> i]]

\* What calculateRankings can return.
calculateRankings(type, perfs, studentList) ==
    {WithRanks(sorted) : sorted \in SortOutcomes(type, UnsortedRankings(type, perfs, studentList))}

NoRankArgs == [type |-> "running", performances |-> <<>>, students |-> {}]
NotRanked == [done |-> FALSE, list |-> <<>>]

\* handleViewResults: the call of calculateRankings on the fetched data.
ViewResults ==
    /\ ~rankings.done
    /\ \E out \in calculateRankings(rankArgs.type, rankArgs.performances, rankArgs.students) :
            rankings' = [done |-> TRUE, list |-> out]
    /\ UNCHANGED <<userVars, studentVars, inviteVars, eventVars, attVars, writer, resp, rankArgs,
                   statVars>>

\* ------------------------------------------------------ attendance percentages
\* A count or a quotient of counts, kept exact as num / den.
Whole(n) == [num |-> n, den |-> 1]
Quotient(n, d) == [num |-> n, den |-> d]

\* Math.round(num / den) for num >= 0 and den > 0: the nearest integer, halves up.
MathRound(num, den) == (2 * num + den) \div (2 * den)

\* records.filter(record => record.present).length
PresentCount(records) == Cardinality({i \in 1..Len(records) : records[i].present})

\* The attendance page, today's card: the present records of today over the
\* size of the roster.
attendancePercentage(todayAttendance, totalStudents) ==
    IF totalStudents > 0
    THEN Whole(MathRound(100 * PresentCount(todayAttendance), totalStudents))
    ELSE Whole(0)

\* The attendance page, the month's card.
monthlyPercentage(monthlyAttendance) ==
    IF Len(monthlyAttendance) > 0
    THEN Whole(MathRound(100 * PresentCount(monthlyAttendance), Len(monthlyAttendance)))
    ELSE Whole(0)

\* getDashboardStats: averageAttendance over the month's records.
averageAttendance(attendanceRecords) ==
    IF Len(attendanceRecords) > 0
    THEN Whole(MathRound(100 * PresentCount(attendanceRecords), Len(attendanceRecords)))
    ELSE Whole(0)

\* AttendanceCalendar.getDayAttendanceData: null for a day without records,
\* else the quotient as it is.
NoDayData == [num |-> -1, den |-> 1]
getDayAttendanceData(dayAttendance) ==
    IF Len(dayAttendance) = 0
    THEN NoDayData
    ELSE Quotient(100 * PresentCount(dayAttendance), Len(dayAttendance))

NoStatArgs == [records |-> <<>>, roster |-> 0]
NoStats == [of |-> "none", present |-> 0, total |-> 0, percentage |-> Whole(0)]

ShowToday ==
    /\ stats = NoStats
    /\ stats' = [of |-> "daily", present |-> PresentCount(statArgs.records),
                 total |-> statArgs.roster,
                 percentage |-> attendancePercentage(statArgs.records, statArgs.roster)]
    /\ UNCHANGED <<userVars, studentVars, inviteVars, eventVars, attVars, writer, resp,
                   rankVars, statArgs>>

ShowMonth ==
    /\ stats = NoStats
    /\ stats' = [of |-> "monthly", present |-> PresentCount(statArgs.records),
                 total |-> Len(statArgs.records),
                 percentage |-> monthlyPercentage(statArgs.records)]
    /\ UNCHANGED <<userVars, studentVars, inviteVars, eventVars, attVars, writer, resp,
                   rankVars, statArgs>>

GetDashboardStats ==
    /\ stats = NoStats
    /\ stats' = [of |-> "dashboard", present |-> PresentCount(statArgs.records),
                 total |-> Len(statArgs.records),
                 percentage |-> averageAttendance(statArgs.records)]
    /\ UNCHANGED <<userVars, studentVars, inviteVars, eventVars, attVars, writer, resp,
                   rankVars, statArgs>>

ShowCalendarDay ==
    /\ stats = NoStats
    /\ stats' = [of |-> "calendar", present |-> PresentCount(statArgs.records),
                 total |-> Len(statArgs.records),
                 percentage |-> getDayAttendanceData(statArgs.records)]
    /\ UNCHANGED <<userVars, studentVars, inviteVars, eventVars, attVars, writer, resp,
                   rankVars, statArgs>>

\* ---------------------------------------------------------- request inputs
StudentBodies == [coachId : Users \cup {Absent}]
\* Bodies of the event routes that carry a status or nothing.
EventBodies == [status : EventStatus \cup {Absent}, rounds : {NoRounds}]
\* The round of a performance body: the client's default, round 1.
RoundChoices == {1}
\* The personal_best of a performance body: left out (as the recording page
\* does) or sent.
PersonalBestChoices == {Absent, "true", "false"}
\* Attendance items of a request body, with late at its column default (false).
AttItems == [studentId : 1..MaxStudents, date : Dates, present : BOOLEAN, late : {FALSE}]
AttBatches == UNION {[1..n -> AttItems] : n \in 1..MaxBatch}
\* Arguments of calculateRankings.
\* Event bodies that set rounds, and the rounds a performance body can name.
RoundsBodies == [status : {Absent}, rounds : 1..MaxRounds]
PerfRounds == 1..MaxRounds
\* Measurements of the recorded performances.
PerfMeasurements == {<<"1">>, <<"2">>}
\* Bodies of the two-coach scenario: updates that keep owner and status, a
\* one-item attendance sheet.
AuthzStudentBodies == {[coachId |-> Absent]}
AuthzEventBodies == {[status |-> Absent, rounds |-> NoRounds]}
AuthzBatches == {<<[studentId |-> s, date |-> d, present |-> TRUE, late |-> FALSE]>> :
                    s \in 1..MaxStudents, d \in Dates}
RankTypes == {"running", "long_jump"}
RankMeasurements == {NullText, <<>>, <<" ">>, <<"a">>, <<"1">>, <<"2", "s">>, <<"1", ".", "5">>}
RankPerformances == [studentId : 1..MaxRankStudents, measurement : RankMeasurements]
RankPerformanceLists == UNION {[1..n -> RankPerformances] : n \in 0..MaxRankPerfs}
RankStudentLists == {1..MaxRankStudents, 1..(MaxRankStudents - 1)}

\* ------------------------------------------------------------ initial states
\* The state of a fresh deployment: empty tables, no request in flight.
Init ==
    /\ role = [u \in Users |-> "coach"]
    /\ students = <<>> /\ nextStudent = 1
    /\ invites = <<>> /\ nextInvite = 1
    /\ now = 0
    /\ updatedAt = [u \in Users |-> 0]
    /\ reg = [r \in Reqs |-> IdleReq]
    /\ events = <<>> /\ nextEvent = 1
    /\ performances = <<>> /\ nextPerf = 1
    /\ del = [d \in Deleters |-> IdleDel]
    /\ rec = [k \in Recorders |-> IdleRec]
    /\ attendance = <<>> /\ nextAtt = 1
    /\ att = [a \in Markers |-> IdleAtt]
    /\ writer = "none"
    /\ resp = "none"
    /\ rankArgs = NoRankArgs
    /\ rankings = NotRanked
    /\ statArgs = NoStatArgs
    /\ stats = NoStats

\* A roster that CreateStudent builds: student 1 of coach u1, student 2 of u2.
SeededStudents ==
    /\ students = [s \in 1..MaxStudents |-> [coachId |-> IF s = 1 THEN "u1" ELSE "u2"]]
    /\ nextStudent = MaxStudents + 1

\* Every assignment of coach and parent is reached by registrations.
AnyRoles == role \in [Users -> {"coach", "parent"}]

InitEmptyBut(rolesAndStudents) ==
    /\ rolesAndStudents
    /\ invites = <<>> /\ nextInvite = 1
    /\ now = 0
    /\ updatedAt = [u \in Users |-> 0]
    /\ reg = [r \in Reqs |-> IdleReq]
    /\ events = <<>> /\ nextEvent = 1
    /\ performances = <<>> /\ nextPerf = 1
    /\ del = [d \in Deleters |-> IdleDel]
    /\ rec = [k \in Recorders |-> IdleRec]
    /\ attendance = <<>> /\ nextAtt = 1
    /\ att = [a \in Markers |-> IdleAtt]
    /\ writer = "none"
    /\ resp = "none"
    /\ rankArgs = NoRankArgs
    /\ rankings = NotRanked
    /\ statArgs = NoStatArgs
    /\ stats = NoStats

\* ------------------------------------------------------------ specifications
\* The roster routes (students and the invites issued for them), called by
\* coaches and by parents.
InitRoster == InitEmptyBut(AnyRoles /\ students = <<>> /\ nextStudent = 1)

RosterNext ==
    \/ \E u \in Users : CreateStudent(u)
    \/ \E u \in Users, s \in 1..MaxStudents, b \in StudentBodies : UpdateStudent(u, s, b)
    \/ \E u \in Users, s \in 1..MaxStudents : DeleteStudent(u, s)
    \/ \E u \in Users, n \in 1..MaxImportRows : ImportStudents(u, n)
    \/ \E u \in Users, s \in (1..MaxStudents) \cup {NoId}, c \in Codes, x \in ExpiryChoices :
            AddParentInvite(u, s, c, x)

SpecRoster == InitRoster /\ [][RosterNext]_vars

\* Parent invites and the registration requests that claim them.
InitInvite == InitEmptyBut(role = [u \in Users |-> "coach"] /\ SeededStudents)

InviteNext ==
    \/ \E u \in Users, s \in (1..MaxStudents) \cup {NoId}, c \in Codes, x \in ExpiryChoices :
            AddParentInvite(u, s, c, x)
    \/ \E u \in Users, s \in 1..MaxStudents : DeleteStudent(u, s)
    \/ Tick
    \/ \E r \in Reqs, u \in Users, c \in Codes \cup {NoCode} : RegValidate(r, u, c)
    \/ \E r \in Reqs : RegUpdateRole(r)
    \/ \E r \in Reqs : RegClaim(r)

SpecInvite == InitInvite /\ [][InviteNext]_vars

\* Logins before and after a parent registration.
InitLogin == InitInvite

LoginNext ==
    \/ \E u \in Users, s \in 1..MaxStudents, c \in Codes : AddParentInvite(u, s, c, NoExpiry)
    \/ Tick
    \/ \E r \in Reqs, u \in Users, c \in Codes : RegValidate(r, u, c)
    \/ \E r \in Reqs : RegUpdateRole(r)
    \/ \E r \in Reqs : RegClaim(r)
    \/ \E u \in Users : Login(u)

SpecLogin == InitLogin /\ [][LoginNext]_vars

\* Events and their performances.
InitEvents == InitEmptyBut(AnyRoles /\ SeededStudents)

EventsNext ==
    \/ \E u \in Users, b \in EventBodies : CreateEvent(u, b)
    \/ \E u \in Users, e \in 1..MaxEvents, b \in EventBodies : UpdateEvent(u, e, b)
    \/ \E d \in Deleters, u \in Users, e \in 1..MaxEvents : DelCheck(d, u, e)
    \/ \E d \in Deleters : DelPerformances(d)
    \/ \E d \in Deleters : DelEventRow(d)
    \/ \E d \in Deleters : DelReturn(d)
    \/ \E k \in Recorders, u \in Users, s \in 1..MaxStudents, e \in 1..MaxEvents,
          n \in RoundChoices : RecCheck(k, u, s, e, n, <<"1">>, Absent)
    \/ \E k \in Recorders : RecInsert(k)

SpecEvents == InitEvents /\ [][EventsNext]_vars

\* Attendance marking.
InitAttendance == InitEmptyBut(AnyRoles /\ SeededStudents)

AttendanceNext ==
    \/ \E a \in Markers, u \in Users, b \in AttBatches : AttCheck(a, u, b)
    \/ \E a \in Markers : AttUpsert(a)
    \/ \E u \in Users, s \in 1..MaxStudents : DeleteStudent(u, s)

SpecAttendance == InitAttendance /\ [][AttendanceNext]_vars

\* An event list that CreateEvent builds: event 1 of coach u1, the others of
\* u2, all planned.
SeededEvents ==
    /\ events = [e \in 1..MaxEvents |->
                    NewEvent(IF e = 1 THEN "u1" ELSE "u2", [status |-> Absent, rounds |-> NoRounds])]
    /\ nextEvent = MaxEvents + 1

\* Two coaches, each with a roster and events, who call the mutating routes
\* on their own and on each other's rows.
InitAuthz ==
    /\ role = [u \in Users |-> "coach"]
    /\ SeededStudents
    /\ invites = <<>> /\ nextInvite = 1
    /\ now = 0
    /\ updatedAt = [u \in Users |-> 0]
    /\ reg = [r \in Reqs |-> IdleReq]
    /\ SeededEvents
    /\ performances = <<>> /\ nextPerf = 1
    /\ del = [d \in Deleters |-> IdleDel]
    /\ rec = [k \in Recorders |-> IdleRec]
    /\ attendance = <<>> /\ nextAtt = 1
    /\ att = [a \in Markers |-> IdleAtt]
    /\ writer = "none"
    /\ resp = "none"
    /\ rankArgs = NoRankArgs
    /\ rankings = NotRanked
    /\ statArgs = NoStatArgs
    /\ stats = NoStats

AuthzNext ==
    \/ \E u \in Users, s \in 1..MaxStudents, b \in AuthzStudentBodies : UpdateStudent(u, s, b)
    \/ \E u \in Users, s \in 1..MaxStudents : DeleteStudent(u, s)
    \/ \E u \in Users, e \in 1..MaxEvents, b \in AuthzEventBodies : UpdateEvent(u, e, b)
    \/ \E d \in Deleters, u \in Users, e \in 1..MaxEvents : DelCheck(d, u, e)
    \/ \E d \in Deleters : DelPerformances(d)
    \/ \E d \in Deleters : DelEventRow(d)
    \/ \E k \in Recorders, u \in Users, s \in 1..MaxStudents, e \in 1..MaxEvents,
          n \in RoundChoices : RecCheck(k, u, s, e, n, <<"1">>, Absent)
    \/ \E k \in Recorders : RecInsert(k)
    \/ \E u \in Users, b \in AuthzBatches : AttCheck(1, u, b)
    \/ \E a \in Markers : AttUpsert(a)

SpecAuthz == InitAuthz /\ [][AuthzNext]_vars

\* Recording performances, with every body the route accepts, and deleting
\* events.
InitPerf == InitAuthz

PerfNext ==
    \/ \E u \in Users, e \in 1..MaxEvents : UpdateEvent(u, e, [status |-> "in_progress", rounds |-> NoRounds])
    \/ \E k \in Recorders, u \in Users, s \in 1..MaxStudents, e \in 1..MaxEvents,
          n \in RoundChoices, m \in PerfMeasurements, pb \in PersonalBestChoices :
            RecCheck(k, u, s, e, n, m, pb)
    \/ \E k \in Recorders : RecInsert(k)
    \/ \E d \in Deleters, u \in Users, e \in 1..MaxEvents : DelCheck(d, u, e)
    \/ \E d \in Deleters : DelPerformances(d)
    \/ \E d \in Deleters : DelEventRow(d)

SpecPerf == InitPerf /\ [][PerfNext]_vars

\* Events whose rounds are edited while performances are recorded per round.
InitRounds == InitAuthz

RoundsNext ==
    \/ \E u \in Users, e \in 1..MaxEvents, b \in RoundsBodies : UpdateEvent(u, e, b)
    \/ \E k \in Recorders, u \in Users, s \in 1..MaxStudents, e \in 1..MaxEvents,
          n \in PerfRounds : RecCheck(k, u, s, e, n, <<"1">>, Absent)
    \/ \E k \in Recorders : RecInsert(k)

SpecRounds == InitRounds /\ [][RoundsNext]_vars

\* The results view: calculateRankings over every bounded argument list.
InitRank ==
    /\ role = [u \in Users |-> "coach"]
    /\ students = <<>> /\ nextStudent = 1
    /\ invites = <<>> /\ nextInvite = 1
    /\ now = 0
    /\ updatedAt = [u \in Users |-> 0]
    /\ reg = [r \in Reqs |-> IdleReq]
    /\ events = <<>> /\ nextEvent = 1
    /\ performances = <<>> /\ nextPerf = 1
    /\ del = [d \in Deleters |-> IdleDel]
    /\ rec = [k \in Recorders |-> IdleRec]
    /\ attendance = <<>> /\ nextAtt = 1
    /\ att = [a \in Markers |-> IdleAtt]
    /\ writer = "none"
    /\ resp = "none"
    /\ rankArgs \in [type : RankTypes, performances : RankPerformanceLists,
                     students : RankStudentLists]
    /\ rankings = NotRanked
    /\ statArgs = NoStatArgs
    /\ stats = NoStats

RankNext == ViewResults

SpecRank == InitRank /\ [][RankNext]_vars

\* The attendance percentages over every bounded list of records and roster size.
StatRecordLists == UNION {[1..n -> [present : BOOLEAN]] : n \in 0..MaxStatRecords}

InitStats ==
    /\ role = [u \in Users |-> "coach"]
    /\ students = <<>> /\ nextStudent = 1
    /\ invites = <<>> /\ nextInvite = 1
    /\ now = 0
    /\ updatedAt = [u \in Users |-> 0]
    /\ reg = [r \in Reqs |-> IdleReq]
    /\ events = <<>> /\ nextEvent = 1
    /\ performances = <<>> /\ nextPerf = 1
    /\ del = [d \in Deleters |-> IdleDel]
    /\ rec = [k \in Recorders |-> IdleRec]
    /\ attendance = <<>> /\ nextAtt = 1
    /\ att = [a \in Markers |-> IdleAtt]
    /\ writer = "none"
    /\ resp = "none"
    /\ rankArgs = NoRankArgs
    /\ rankings = NotRanked
    /\ statArgs \in [records : StatRecordLists, roster : 0..MaxStatRecords]
    /\ stats = NoStats

StatsNext == ShowToday \/ ShowMonth \/ GetDashboardStats \/ ShowCalendarDay

SpecStats == InitStats /\ [][StatsNext]_vars

\* The whole server.
Next == RosterNext \/ InviteNext \/ EventsNext \/ AttendanceNext \/ AuthzNext \/ PerfNext
            \/ RoundsNext
            \/ LoginNext
            \/ RankNext
            \/ StatsNext

Spec == Init /\ [][Next]_vars

\* ------------------------------------------------------------------ claims
\* C1: of the registration requests that called claimInvite on one invite,
\* exactly one got the invite row and every other got null; the invite is
\* then claimed, bound to the winner's user, and that user's role is parent.
C1_ExactlyOneClaimWins ==
    \A i \in DOMAIN invites :
        LET callers == {r \in Reqs : reg[r].claim # "none" /\ reg[r].inviteId = i}
            winners == {r \in callers : reg[r].claim = "row"}
        IN  callers # {} =>
                /\ Cardinality(winners) = 1
                /\ \A r \in callers \ winners : reg[r].claim = "null" /\ reg[r].res = "conflict"
                /\ invites[i].claimed
                /\ \A w \in winners : /\ invites[i].parentUserId = reg[w].userId
                                      /\ role[reg[w].userId] = "parent"

\* Two requests of different users raced for one invite: one won, one lost.
C1_RaceDecided ==
    \E r1, r2 \in Reqs :
        /\ reg[r1].userId # reg[r2].userId
        /\ reg[r1].inviteId = reg[r2].inviteId
        /\ reg[r1].claim = "row" /\ reg[r2].claim = "null"

\* C2: the request whose claimInvite affected zero rows leaves the state as
\* it was: its claim changes no invite and its user's role is the role the
\* user had before the request.
C2_LoserLeavesStateUnchanged ==
    [][\A r \in Reqs :
        (reg[r].pc = "roleUpdated" /\ reg'[r].claim = "null") =>
            /\ invites' = invites
            /\ role'[reg[r].userId] = reg[r].roleBefore]_vars

\* C3: a claimed invite stays claimed and keeps its parentUserId.
C3_ClaimedIsFinal ==
    [][\A i \in DOMAIN invites :
        invites[i].claimed =>
            /\ i \in DOMAIN invites'
            /\ invites'[i].claimed
            /\ invites'[i].parentUserId = invites[i].parentUserId]_vars

\* A later claim attempt met an invite that was already claimed.
C3_LateClaimRefused ==
    \E r \in Reqs : /\ reg[r].claim = "null"
                    /\ invites[reg[r].inviteId].claimed
                    /\ invites[reg[r].inviteId].parentUserId # reg[r].userId

\* C4: a claim written when the invite's expiresAt is in the past fails and
\* sets neither claimed nor parentUserId.
C4_ExpiredClaimFails ==
    [][\A r \in Reqs :
        (reg[r].pc = "roleUpdated" /\ reg'[r].pc = "done"
            /\ IsExpired(invites[reg[r].inviteId], now)) =>
                /\ reg'[r].claim = "null"
                /\ invites' = invites]_vars

\* C5: no event's status becomes completed while no performance row of
\* that event exists.
C5_NoCompletionWithoutPerformances ==
    [][\A e \in DOMAIN events \cap DOMAIN events' :
        (events[e].status # "completed" /\ events'[e].status = "completed") =>
            EventReferenced(e)]_vars

StatusRank(st) == CASE st = "planned" -> 1 [] st = "in_progress" -> 2 [] st = "completed" -> 3

\* C6: an event's status never moves backwards along planned, in_progress,
\* completed.
C6_StatusOnlyAdvances ==
    [][\A e \in DOMAIN events \cap DOMAIN events' :
        StatusRank(events'[e].status) >= StatusRank(events[e].status)]_vars

\* C7: a performance row is inserted only while its event is in_progress.
C7_RecordOnlyInProgress ==
    [][\A p \in DOMAIN performances' \ DOMAIN performances :
        /\ performances'[p].eventId \in DOMAIN events
        /\ events[performances'[p].eventId].status = "in_progress"]_vars

\* C8: once deleteEvent(id) has returned, the event row and every performance
\* row of that event are gone, and its statements left the performance rows
\* of other events as they were.
C8_DeleteEventCascades ==
    /\ [](\A d \in Deleters :
            (del[d].pc = "done" /\ del[d].res = "ok") =>
                /\ del[d].eventId \notin DOMAIN events
                /\ ~EventReferenced(del[d].eventId))
    /\ [][\A d \in Deleters :
            (del[d].pc \in {"checked", "perfsDeleted"} /\ del'[d].pc # del[d].pc) =>
                \A p \in DOMAIN performances :
                    performances[p].eventId # del[d].eventId =>
                        /\ p \in DOMAIN performances'
                        /\ performances'[p] = performances[p]]_vars

\* deleteEvent returned after removing performance rows, and a performance
\* row of another event is still there.
C8_DeletedWithCascade ==
    \E d \in Deleters :
        /\ del[d].pc = "done" /\ del[d].res = "ok"
        /\ Cardinality(DOMAIN performances) < nextPerf - 1
        /\ performances # <<>>

\* C9: the attendance table never holds two rows for one (studentId, date).
C9_OneRowPerStudentDate ==
    \A a, b \in DOMAIN attendance :
        (attendance[a].studentId = attendance[b].studentId
            /\ attendance[a].date = attendance[b].date) => a = b

\* Two submissions are in flight for a (student, date) that already has a row.
C9_ConcurrentSameKey ==
    \E a, b \in Markers :
        /\ a # b
        /\ att[a].pc = "marking" /\ att[b].pc = "marking"
        /\ att[a].batch[att[a].idx].studentId = att[b].batch[att[b].idx].studentId
        /\ att[a].batch[att[a].idx].date = att[b].batch[att[b].idx].date
        /\ AttConflictRows(attendance, att[a].batch[att[a].idx]) # {}

\* C10: no request of a caller whose role is parent writes a student, event,
\* attendance or performance row.
C10_ParentNeverWrites == writer # "parent"

\* C11: a mutating request of a coach on a student or event of another coach
\* (update, delete, attendance item, performance) is answered with the
\* authorization error and changes no table row and starts no write.
C11_CrossCoachRejected ==
    [][LET Rejected == /\ resp' = "forbidden"
                       /\ UNCHANGED <<students, events, performances, attendance,
                                      del, rec, att>>
       IN  /\ \A u \in Users, s \in DOMAIN students :
                (/\ students[s].coachId # u
                 /\ \/ \E b \in AuthzStudentBodies : UpdateStudent(u, s, b)
                    \/ DeleteStudent(u, s)) => Rejected
           /\ \A u \in Users, e \in DOMAIN events :
                (/\ events[e].coachId # u
                 /\ \/ \E b \in AuthzEventBodies : UpdateEvent(u, e, b)
                    \/ \E d \in Deleters : DelCheck(d, u, e)) => Rejected
           /\ \A u \in Users, b \in AuthzBatches :
                (/\ \E k \in 1..Len(b) : /\ b[k].studentId \in DOMAIN students
                                         /\ students[b[k].studentId].coachId # u
                 /\ \E a \in Markers : AttCheck(a, u, b)) => Rejected
           /\ \A u \in Users, s \in DOMAIN students, e \in DOMAIN events :
                (/\ students[s].coachId # u \/ events[e].coachId # u
                 /\ \E k \in Recorders, n \in RoundChoices, pb \in {Absent} :
                        RecCheck(k, u, s, e, n, <<"1">>, pb)) => Rejected]_vars

\* A coach was refused on another coach's row while both coaches have rows
\* written by their own requests.
C11_CrossCoachRefused ==
    /\ resp = "forbidden"
    /\ \A u \in Users : ~IsParent(u)
    /\ \E p \in DOMAIN performances : students[performances[p].studentId].coachId = "u1"
    /\ \E a \in DOMAIN attendance : attendance[a].coachId = "u2"

\* C12: for a parent, each student-read endpoint (the list, the student by
\* id, the performances of a student) answers with student s exactly when an
\* invite with parentUserId = that user and studentId = s exists.
C12_ParentReadsExactlyLinked ==
    \A u \in Users : IsParent(u) =>
        \A s \in 1..MaxStudents :
            LET linked == \E i \in DOMAIN invites : /\ invites[i].parentUserId = u
                                                    /\ invites[i].studentId = s
            IN  /\ s \in GetStudentList(u) <=> linked
                /\ GetStudent(u, s).status = "ok" <=> linked
                /\ GetStudent(u, s).data = (IF linked THEN {s} ELSE {})
                /\ GetStudentPerformances(u, s).status = "ok" <=> linked

\* A parent reads the student of the invite they claimed and is refused the
\* other student, which exists.
C12_ParentReadsOneOfTwo ==
    \E u \in Users, s1, s2 \in DOMAIN students :
        /\ IsParent(u)
        /\ GetStudent(u, s1).status = "ok" /\ s1 \in GetStudentList(u)
        /\ GetStudent(u, s2).status = "forbidden" /\ s2 \notin GetStudentList(u)
        /\ \E w \in Users : IsParent(w) /\ GetStudentList(w) = {}

\* C13: a student row keeps the coachId it was created with.
C13_CoachIdNeverChanges ==
    [][\A s \in DOMAIN students \cap DOMAIN students' :
            students'[s].coachId = students[s].coachId]_vars

\* A measurement that is null, empty or only whitespace.
IsBlank(m) == m = NullText \/ \A i \in 1..Len(m) : m[i] = " "

\* The non-blank measurements that the arguments hold for student sid.
NonBlankOf(sid) ==
    {rankArgs.performances[i].measurement : i \in
        {j \in 1..Len(rankArgs.performances) :
            /\ rankArgs.performances[j].studentId = sid
            /\ ~IsBlank(rankArgs.performances[j].measurement)}}

HasDigit(m) == \E i \in 1..Len(m) : m[i] \in Digits

\* C14: the ranks of the returned list are 1, 2, ..., N in list order, and N
\* is at most the number of distinct students with a non-blank measurement.
C14_RanksAreOneToN ==
    rankings.done =>
        /\ \A i \in 1..Len(rankings.list) : rankings.list[i].rank = i
        /\ Len(rankings.list) <=
                Cardinality({sid \in 1..MaxRankStudents : NonBlankOf(sid) # {}})

\* A ranking of two students came back from more than two performances.
C14_TwoRanked ==
    /\ rankings.done
    /\ Len(rankings.list) >= 2
    /\ Len(rankArgs.performances) > Len(rankings.list)

\* C15: down the returned list the normalized values never decrease for a
\* running event and never increase for any other type, whatever the
\* measurement strings are.
C15_SortedByDirection ==
    rankings.done =>
        \A i \in 1..(Len(rankings.list) - 1) :
            LET a == rankings.list[i].numericValue
                b == rankings.list[i + 1].numericValue
            IN  IF rankArgs.type = "running"
                THEN a # NaN /\ b # NaN /\ a <= b
                ELSE a # NaN /\ b # NaN /\ a >= b

\* C16: the measurement reported for a ranked student is one of the
\* student's non-blank measurements and no numeric measurement of the
\* student beats it (smaller for running, larger otherwise).
C16_BestPerStudent ==
    rankings.done =>
        \A i \in 1..Len(rankings.list) :
            LET own == NonBlankOf(rankings.list[i].student)
                reported == rankings.list[i].bestPerformance
            IN  /\ reported \in own
                /\ \A m \in own :
                        NumericValue(m) # NaN =>
                            /\ NumericValue(reported) # NaN
                            /\ IF rankArgs.type = "running"
                               THEN NumericValue(reported) <= NumericValue(m)
                               ELSE NumericValue(reported) >= NumericValue(m)

\* C17: a student is in the returned list at most once and only with a
\* non-blank measurement of their own; blank measurements are never
\* reported, and arguments without a non-blank measurement give the empty list.
C17_OnlyStudentsWithMeasurements ==
    rankings.done =>
        /\ \A i, j \in 1..Len(rankings.list) :
                rankings.list[i].student = rankings.list[j].student => i = j
        /\ \A i \in 1..Len(rankings.list) :
                /\ NonBlankOf(rankings.list[i].student) # {}
                /\ ~IsBlank(rankings.list[i].bestPerformance)
        /\ (\A sid \in 1..MaxRankStudents : NonBlankOf(sid) = {}) => rankings.list = <<>>

\* The arguments hold blank measurements only for one student, who is left
\* out, and the other student is ranked.
C17_BlankStudentLeftOut ==
    /\ rankings.done
    /\ Len(rankings.list) = 1
    /\ \E sid \in rankArgs.students :
            /\ \E i \in 1..Len(rankArgs.performances) :
                    rankArgs.performances[i].studentId = sid
            /\ NonBlankOf(sid) = {}

\* C20: a non-blank measurement without digits normalizes to the worst value
\* of the event's direction (a very large number for running, zero
\* otherwise), and a student with only such measurements is never listed
\* before a student who has a measurement with digits.
C20_NonNumericRanksLast ==
    rankings.done =>
        /\ \A i \in 1..Len(rankings.list) :
                ~HasDigit(rankings.list[i].bestPerformance) =>
                    IF rankArgs.type = "running"
                    THEN rankings.list[i].numericValue >= 999999 * Scale
                    ELSE rankings.list[i].numericValue = 0
        /\ \A i, j \in 1..Len(rankings.list) :
                (/\ i < j
                 /\ \A m \in NonBlankOf(rankings.list[i].student) : ~HasDigit(m))
                    => \A m \in NonBlankOf(rankings.list[j].student) : ~HasDigit(m)

\* C18: the first performance row inserted for a student (the first of its
\* event type, whatever the type) is stored with personalBest = true.
C18_FirstIsPersonalBest ==
    [][\A p \in DOMAIN performances' \ DOMAIN performances :
            (\A q \in DOMAIN performances :
                    performances[q].studentId # performances'[p].studentId)
                => performances'[p].personalBest]_vars

\* C19: a performance row that stays in the table keeps its personalBest.
C19_PersonalBestIsFrozen ==
    [][\A p \in DOMAIN performances \cap DOMAIN performances' :
            performances'[p].personalBest = performances[p].personalBest]_vars

\* A row flagged personalBest is still flagged after a smaller (for a
\* running event: better) measurement of the same student in the same event
\* was recorded.
C19_BetterRecordedLater ==
    \E p, q \in DOMAIN performances :
        /\ p < q
        /\ performances[p].studentId = performances[q].studentId
        /\ performances[p].eventId = performances[q].eventId
        /\ NumLess(NumericValue(performances[q].measurement),
                   NumericValue(performances[p].measurement))
        /\ performances[p].personalBest

\* C21: validateInviteCode(code) returns null exactly when no invite has the
\* code, or that invite is claimed, or its expiresAt is set and earlier than
\* now; otherwise it returns the coachId, studentId and id of the invite; the
\* request step that calls it changes no row.
C21_ValidateInviteCode ==
    /\ [](\A c \in Codes \cup {NoCode} :
            LET hits == {i \in DOMAIN invites : invites[i].inviteCode = c}
                v == validateInviteCode(invites, c, now)
            IN  IF \/ hits = {}
                   \/ \E i \in hits : \/ invites[i].claimed
                                      \/ (invites[i].expiresAt # NoExpiry
                                            /\ invites[i].expiresAt < now)
                THEN v = InvalidCode
                ELSE /\ v.ok
                     /\ v.inviteId \in hits
                     /\ v.coachId = invites[v.inviteId].coachId
                     /\ v.studentId = invites[v.inviteId].studentId)
    /\ [][\A r \in Reqs :
            (reg[r].pc = "idle" /\ reg'[r].pc # "idle") =>
                /\ invites' = invites
                /\ role' = role
                /\ students' = students]_vars

\* A request holds the ids that validateInviteCode returned for an invite
\* which has expired since and is refused now.
C21_ValidThenExpired ==
    \E r \in Reqs :
        /\ reg[r].pc = "validated"
        /\ reg[r].inviteId \in DOMAIN invites
        /\ ~invites[reg[r].inviteId].claimed
        /\ invites[reg[r].inviteId].expiresAt # NoExpiry
        /\ invites[reg[r].inviteId].expiresAt < now
        /\ validateInviteCode(invites, invites[reg[r].inviteId].inviteCode, now) = InvalidCode

\* C22: no step moves an event from planned to completed.
C22_NoPlannedToCompleted ==
    [][\A e \in DOMAIN events \cap DOMAIN events' :
            ~(events[e].status = "planned" /\ events'[e].status = "completed")]_vars

C24_RoundWithinEventRounds ==
    \A p \in DOMAIN performances :
        performances[p].eventId \in DOMAIN events =>
            /\ performances[p].round >= 1
            /\ performances[p].round <= events[performances[p].eventId].rounds

\* C25: every attendance percentage (today's, the month's, the dashboard's
\* averageAttendance, a calendar day's) is 0 when its total is 0 and
\* otherwise equals round(present / total * 100); a day without data, for
\* which the calendar computes no percentage, is left aside.
C25_PercentageIsRounded ==
    (stats # NoStats /\ stats.percentage # NoDayData) =>
        IF stats.total = 0
        THEN stats.percentage = Whole(0)
        ELSE stats.percentage.num =
                stats.percentage.den * MathRound(100 * stats.present, stats.total)

\* C26: deleteEvent is all-or-nothing next to a concurrent recordPerformance:
\* once a deleteEvent that removed performances of the event has finished,
\* with success or with an error, the event row is gone too.
C26_DeleteEventAllOrNothing ==
    \A d \in Deleters :
        (del[d].pc = "done" /\ del[d].removed > 0) => del[d].eventId \notin DOMAIN events

\* The position in the input list of the first non-blank performance of
\* student sid (0 if there is none).
FirstNonBlank(sid) ==
    LET at == {j \in 1..Len(rankArgs.performances) :
                    /\ rankArgs.performances[j].studentId = sid
                    /\ ~IsBlank(rankArgs.performances[j].measurement)}
    IN  IF at = {} THEN 0 ELSE CHOOSE j \in at : \A k \in at : j <= k

\* C27: students whose best normalized values are equal get distinct ranks
\* that follow one another (nobody with another value is ranked between
\* them), the student whose first non-blank performance comes earlier in the
\* input list getting the lower rank.
C27_TiesInEncounterOrder ==
    rankings.done =>
        \A i, j \in 1..Len(rankings.list) :
            (/\ i < j
             /\ rankings.list[i].numericValue # NaN
             /\ rankings.list[i].numericValue = rankings.list[j].numericValue)
                => /\ rankings.list[i].rank < rankings.list[j].rank
                   /\ FirstNonBlank(rankings.list[i].student)
                        < FirstNonBlank(rankings.list[j].student)
                   /\ \A k \in i..j :
                        rankings.list[k].numericValue = rankings.list[i].numericValue

\* C28: an event has status planned in the state right after its creation,
\* whatever the fields of the create request body.
C28_CreatedPlanned ==
    [][\A e \in DOMAIN events' \ DOMAIN events : events'[e].status = "planned"]_vars

\* C29: a login (upsertUser for an id that exists) leaves the user's role
\* unchanged: only the updateUserRole step of a registration changes a role,
\* and a user who is parent stays parent.
C29_LoginKeepsRole ==
    [][/\ reg' = reg => role' = role
       /\ \A u \in Users : role[u] = "parent" => role'[u] = "parent"]_vars

\* A parent logged in after the registration: the users row was written after
\* the claim, and no other registration request wrote it.
C29_ParentLoggedInAgain ==
    /\ \A r \in Reqs : reg[r].pc = "idle" \/ (reg[r].pc = "done" /\ reg[r].res = "ok")
    /\ \E u \in Users :
            /\ role[u] = "parent"
            /\ \E i \in DOMAIN invites : invites[i].parentUserId = u
            /\ \A i \in DOMAIN invites :
                    invites[i].parentUserId = u => invites[i].claimedAt < updatedAt[u]

====
